---------------------------- MODULE Spec2Model ----------------------------
(***************************************************************************)
(* Model of the audit-trail contract                                       *)
(*   src/stellar-core/compliance-engine/contracts/audit_trail/src/lib.rs   *)
(* and of the carbon-asset contract                                        *)
(*   src/stellar-core/carbon-asset-factory/contracts/carbon_asset/         *)
(*   src/lib.rs (variables asset and balances, specification SpecAsset).   *)
(*                                                                         *)
(* Instance storage (Admin, AuthorizedEmitters) and persistent storage     *)
(* (Events, EntityIndex, TypeTimeIndex, ContractIndex) are the state.      *)
(* Every contract entry point is one action; a panicking invocation        *)
(* commits nothing (host rollback) and is observed only through `last`,    *)
(* the record of the latest invocation and its outcome.                    *)
(*                                                                         *)
(* Host services are modelled by what the contract can observe of them:    *)
(*   - require_auth(a) succeeds iff a is in the set `auths` of identities  *)
(*     that authorized the invocation;                                     *)
(*   - sha256 is injective on the payloads the model builds, so the digest *)
(*     is represented by its pre-image;                                    *)
(*   - persistent entries carry a live-until ledger; an entry leaves the   *)
(*     contract's view only in SpecExpiry, where the host expires an event *)
(*     record whose live-until ledger has passed.                          *)
(***************************************************************************)
EXTENDS Integers, Naturals, Sequences, FiniteSets, TLC

VARIABLES instance, events, entityIndex, typeTimeIndex, contractIndex,
          liveUntil, ledger, last, asset, balances

vars == <<instance, events, entityIndex, typeTimeIndex, contractIndex,
          liveUntil, ledger, last, asset, balances>>

(* the entries of the carbon-asset contract
     src/stellar-core/carbon-asset-factory/contracts/carbon_asset/src/lib.rs:
   its instance storage and its persistent balances *)
carbon == <<asset, balances>>

(* the entries of the audit-trail contract and the ledger *)
audit == <<instance, events, entityIndex, typeTimeIndex, contractIndex,
           liveUntil, ledger>>

(* the persistent entries, without their lifetimes *)
store == <<events, entityIndex, typeTimeIndex, contractIndex>>

----------------------------------------------------------------------------
(* Bounds of the model *)

MaxEvents == 2
MaxLedger == 1

(* Program constants *)

DaySeconds == 86400
RetentionLedgers == 535680
HashLen == 32
U64Bytes == 8
LimbBase == 65536

(* Input domains *)

Address == {"GA", "GB"}
EventTypes == {"TOKEN_MINTED", "TOKEN_RETIRED"}
EntityIds == {"project-123", "project-456"}
NoneStr == "None"
SecondaryIds == {NoneStr, "buyer-1"}
EventData == {"{}", "{amount:100}"}
TxBytes == {0, 1}
TimeSteps == {1, DaySeconds}
AuthSets == SUBSET Address
PageStarts == {0, 1, 2}
PageLimits == {0, 1, 2}

NoRet == "NoRet"

----------------------------------------------------------------------------
(* Pure helpers *)

(* the map lookup with default: storage.get(key).unwrap_or(default) *)
GetOr(map, key, default) == IF key \in DOMAIN map THEN map[key] ELSE default

(* map.set(key, value) *)
Put(map, key, value) ==
    [k \in DOMAIN map \cup {key} |-> IF k = key THEN value ELSE map[k]]

TxArray_zeroed(b) == [i \in 1..HashLen |-> 0]

(* BytesN<32>::from_array(&[b; 32]).to_array() *)
TxArray(b) == [i \in 1..HashLen |-> b]

RECURSIVE BeBytes(_, _)
(* the low `len` bytes of n, most significant first *)
BeBytes(n, len) ==
    IF len = 0 THEN <<>> ELSE Append(BeBytes(n \div 256, len - 1), n % 256)

(* u64::to_be_bytes *)
ToBeBytes(timestamp) == BeBytes(timestamp, U64Bytes)

(* env.crypto().sha256: collision-free, the digest stands for its pre-image *)
Sha256(payload) == payload

DeriveId_ignores_timestamp(tx_hash, timestamp) == Sha256(TxArray(tx_hash))

(* lines 116-120: the event identifier *)
DeriveId(tx_hash, timestamp) == Sha256(TxArray(tx_hash) \o ToBeBytes(timestamp))

DayTimestamp_unfloored(timestamp) == timestamp

(* lines 147 and 201: the day bucket of a timestamp *)
DayTimestamp(timestamp) == (timestamp \div DaySeconds) * DaySeconds

ExtendTtl_zero_threshold(old, seq, threshold, extend_to) ==
    IF seq + extend_to > old /\ old - seq <= 0
    THEN seq + extend_to
    ELSE old

(* storage.persistent().extend_ttl(key, threshold, extend_to) on an entry
   whose live-until ledger is `old`, at ledger `seq` *)
ExtendTtl(old, seq, threshold, extend_to) ==
    IF seq + extend_to > old /\ old - seq <= threshold
    THEN seq + extend_to
    ELSE old

SetAndExtend_no_renewal(ttlMap, key, seq) ==
    Put(ttlMap, key, GetOr(ttlMap, key, seq))

(* storage.persistent().set(key, ..) followed by extend_ttl(key, 535680,
   535680): a new entry starts with the host's minimum lifetime, taken as
   the current ledger; an existing entry keeps its live-until ledger *)
SetAndExtend(ttlMap, key, seq) ==
    Put(ttlMap, key,
        ExtendTtl(GetOr(ttlMap, key, seq), seq, RetentionLedgers, RetentionLedgers))

PushBack_dedups(index, key, event_id) ==
    IF \E i \in 1..Len(GetOr(index, key, <<>>)) : GetOr(index, key, <<>>)[i] = event_id
    THEN index
    ELSE Put(index, key, Append(GetOr(index, key, <<>>), event_id))

(* lines 141-143 (and 149-151, 156-158): read the bucket or an empty one,
   push the identifier at the back, store the bucket *)
PushBack(index, key, event_id) ==
    Put(index, key, Append(GetOr(index, key, <<>>), event_id))

SetEvent_dropped(evs, event_id, event) == evs

(* line 134: persistent().set(Events(event_id), event), an unconditional
   store that replaces whatever the key held *)
SetEvent(evs, event_id, event) == Put(evs, event_id, event)

EmitterAllowed_default_true(map, emitter) == GetOr(map, emitter, TRUE)

(* line 106: emitters.get(emitter).unwrap_or(false) *)
EmitterAllowed(map, emitter) == GetOr(map, emitter, FALSE)

----------------------------------------------------------------------------
(* Unsigned 32-bit values, kept as two 16-bit limbs (start and limit of a
   page range over the whole u32 range) *)

U32(n) == [hi |-> n \div LimbBase, lo |-> n % LimbBase]
U32Max == [hi |-> LimbBase - 1, lo |-> LimbBase - 1]
U32Less(a, b) == a.hi < b.hi \/ (a.hi = b.hi /\ a.lo < b.lo)
U32Min(a, b) == IF U32Less(b, a) THEN b ELSE a
(* a + b in u32: the wrapped sum and whether it overflowed *)
U32Add(a, b) ==
    LET lo == a.lo + b.lo
        hi == a.hi + b.hi + lo \div LimbBase
    IN [overflow |-> hi >= LimbBase,
        value |-> [hi |-> hi % LimbBase, lo |-> lo % LimbBase]]
(* a value known to fit one limb, as a number *)
U32Small(a) == a.lo

----------------------------------------------------------------------------
(* Observation of the latest invocation *)

Call(op, auths, arg, status, ret) ==
    [op |-> op, auths |-> auths, arg |-> arg, status |-> status, ret |-> ret]

Ok == "ok"
AlreadyInitialized == "AlreadyInitialized"
NotInitialized == "NotInitialized"
AuthRequired == "AuthRequired"
NotAuthorized == "NotAuthorized"

(* env.storage().instance().has(key) *)
Has(key) == key \in DOMAIN instance

Init ==
    /\ instance = <<>>
    /\ events = <<>>
    /\ entityIndex = <<>>
    /\ typeTimeIndex = <<>>
    /\ contractIndex = <<>>
    /\ liveUntil = [events |-> <<>>, entity |-> <<>>, typeTime |-> <<>>,
                    contract |-> <<>>]
    /\ ledger = [sequence_number |-> 0, timestamp |-> 0]
    /\ last = Call("deploy", {}, NoRet, Ok, NoRet)
    /\ asset = <<>>
    /\ balances = <<>>

(* A panic: the host discards every write of the invocation *)
Abort(op, auths, arg, status) ==
    /\ last' = Call(op, auths, arg, status, NoRet)
    /\ UNCHANGED <<instance, events, entityIndex, typeTimeIndex,
                   contractIndex, liveUntil, ledger, carbon>>

----------------------------------------------------------------------------
(* Authorization registry *)

initialize_again(new_admin) ==
    /\ instance' = Put(Put(instance, "Admin", new_admin),
                       "AuthorizedEmitters", <<>>)
    /\ last' = Call("initialize", {}, new_admin, Ok, NoRet)
    /\ UNCHANGED <<events, entityIndex, typeTimeIndex, contractIndex,
                   liveUntil, ledger, carbon>>

initialize(new_admin) ==
    IF Has("Admin")
    THEN Abort("initialize", {}, new_admin, AlreadyInitialized)
    ELSE /\ instance' = Put(Put(instance, "Admin", new_admin),
                            "AuthorizedEmitters", <<>>)
         /\ last' = Call("initialize", {}, new_admin, Ok, NoRet)
         /\ UNCHANGED <<events, entityIndex, typeTimeIndex, contractIndex,
                        liveUntil, ledger, carbon>>

SetFlag_on_new_map(emitters, emitter, flag) == Put(<<>>, emitter, flag)

(* lines 49-50 and 58-59: the stored allow-list with the flag of the emitter
   set *)
SetFlag(emitters, emitter, flag) == Put(emitters, emitter, flag)

SetEmitter_any_signer(op, auths, emitter, flag) ==
    IF ~Has("Admin")
    THEN Abort(op, auths, emitter, NotInitialized)
    ELSE IF auths = {}
    THEN Abort(op, auths, emitter, AuthRequired)
    ELSE /\ instance' = Put(instance, "AuthorizedEmitters",
                            Put(instance["AuthorizedEmitters"], emitter, flag))
         /\ last' = Call(op, auths, emitter, Ok, NoRet)
         /\ UNCHANGED <<events, entityIndex, typeTimeIndex, contractIndex,
                        liveUntil, ledger, carbon>>

(* lines 46-51 and 55-60: the common body of authorize_emitter and
   revoke_emitter, which differ in the flag they set *)
SetEmitter(op, auths, emitter, flag) ==
    IF ~Has("Admin")
    THEN Abort(op, auths, emitter, NotInitialized)
    ELSE IF instance["Admin"] \notin auths
    THEN Abort(op, auths, emitter, AuthRequired)
    ELSE IF ~Has("AuthorizedEmitters")
    THEN Abort(op, auths, emitter, NotInitialized)
    ELSE /\ instance' = Put(instance, "AuthorizedEmitters",
                            SetFlag(instance["AuthorizedEmitters"], emitter, flag))
         /\ last' = Call(op, auths, emitter, Ok, NoRet)
         /\ UNCHANGED <<events, entityIndex, typeTimeIndex, contractIndex,
                        liveUntil, ledger, carbon>>

authorize_emitter_toggles(auths, emitter) ==
    SetEmitter("authorize_emitter", auths, emitter,
               ~GetOr(instance["AuthorizedEmitters"], emitter, FALSE))

authorize_emitter(auths, emitter) ==
    SetEmitter("authorize_emitter", auths, emitter, TRUE)

revoke_emitter_sets_true(auths, emitter) ==
    SetEmitter("revoke_emitter", auths, emitter, TRUE)

revoke_emitter(auths, emitter) ==
    SetEmitter("revoke_emitter", auths, emitter, FALSE)

(* line 65: emitters.get(emitter).unwrap_or(false) *)
is_authorized_result(emitter) ==
    GetOr(instance["AuthorizedEmitters"], emitter, FALSE)

is_authorized_or_false(emitter) ==
    /\ last' = Call("is_authorized", {}, emitter, Ok,
                    Has("AuthorizedEmitters") /\ is_authorized_result(emitter))
    /\ UNCHANGED <<instance, events, entityIndex, typeTimeIndex,
                   contractIndex, liveUntil, ledger, carbon>>

is_authorized(emitter) ==
    IF ~Has("AuthorizedEmitters")
    THEN Abort("is_authorized", {}, emitter, NotInitialized)
    ELSE /\ last' = Call("is_authorized", {}, emitter, Ok,
                         is_authorized_result(emitter))
         /\ UNCHANGED <<instance, events, entityIndex, typeTimeIndex,
                        contractIndex, liveUntil, ledger, carbon>>

----------------------------------------------------------------------------
(* The write path *)

(* the arguments of a write; the optional secondary id and the payload are
   passed through unread, so they vary with the entity and the type *)
Submission ==
    {s \in {[emitter |-> e, event_type |-> t, primary_entity_id |-> p,
             secondary_entity_id |-> q, event_data |-> d, tx_hash |-> h] :
                e \in Address, t \in EventTypes, p \in EntityIds,
                q \in SecondaryIds, d \in EventData, h \in TxBytes} :
        /\ s.secondary_entity_id = NoneStr <=> s.primary_entity_id = "project-123"
        /\ s.event_data = "{}" <=> s.event_type = "TOKEN_RETIRED"}

UseRecordEventAuth == "Use record_event_auth instead"

record_event_stores(auths, event_type, primary_entity_id, secondary_entity_id, event_data, tx_hash) ==
    LET event_id == DeriveId(tx_hash, ledger.timestamp)
        arg == [event_type |-> event_type,
                primary_entity_id |-> primary_entity_id,
                secondary_entity_id |-> secondary_entity_id,
                event_data |-> event_data,
                tx_hash |-> tx_hash]
    IN /\ events' = SetEvent(events, event_id,
                             [arg EXCEPT !.tx_hash = TxArray(tx_hash)])
       /\ last' = Call("record_event", auths, arg, Ok, event_id)
       /\ UNCHANGED <<instance, entityIndex, typeTimeIndex, contractIndex,
                      liveUntil, ledger, carbon>>

(* lines 68-90: the entry point without an emitter argument reads the
   contract's own address and panics; nothing it could have written stays *)
record_event(auths, event_type, primary_entity_id, secondary_entity_id, event_data, tx_hash) ==
    Abort("record_event", auths,
          [event_type |-> event_type,
           primary_entity_id |-> primary_entity_id,
           secondary_entity_id |-> secondary_entity_id,
           event_data |-> event_data,
           tx_hash |-> tx_hash],
          UseRecordEventAuth)

Authenticated_any_signer(auths, emitter) == auths # {}

(* line 102: emitter.require_auth() passes when the emitter named in the
   arguments is among the identities that signed the invocation *)
Authenticated(auths, emitter) == emitter \in auths

record_event_auth(auths, s) ==
  LET arg == [emitter |-> s.emitter,
              event_type |-> s.event_type,
              primary_entity_id |-> s.primary_entity_id,
              secondary_entity_id |-> s.secondary_entity_id,
              event_data |-> s.event_data,
              tx_hash |-> s.tx_hash]
  IN
    IF ~Authenticated(auths, s.emitter)
    THEN Abort("record_event_auth", auths, arg, AuthRequired)
    ELSE IF ~Has("AuthorizedEmitters")
    THEN Abort("record_event_auth", auths, arg, NotInitialized)
    ELSE IF ~EmitterAllowed(instance["AuthorizedEmitters"], s.emitter)
    THEN Abort("record_event_auth", auths, arg, NotAuthorized)
    ELSE
      LET timestamp == ledger.timestamp
          seq == ledger.sequence_number
          event_id == DeriveId(s.tx_hash, timestamp)
          event == [event_id |-> event_id,
                    timestamp |-> timestamp,
                    event_type |-> s.event_type,
                    emitting_contract |-> s.emitter,
                    primary_entity_id |-> s.primary_entity_id,
                    secondary_entity_id |-> s.secondary_entity_id,
                    event_data |-> s.event_data,
                    tx_hash |-> TxArray(s.tx_hash)]
          entity_key == s.primary_entity_id
          type_time_key == <<s.event_type, DayTimestamp(timestamp)>>
          contract_key == s.emitter
      IN /\ events' = SetEvent(events, event_id, event)
         /\ entityIndex' = PushBack(entityIndex, entity_key, event_id)
         /\ typeTimeIndex' = PushBack(typeTimeIndex, type_time_key, event_id)
         /\ contractIndex' = PushBack(contractIndex, contract_key, event_id)
         /\ liveUntil' =
                [events |-> SetAndExtend(liveUntil.events, event_id, seq),
                 entity |-> SetAndExtend(liveUntil.entity, entity_key, seq),
                 typeTime |-> SetAndExtend(liveUntil.typeTime, type_time_key, seq),
                 contract |-> SetAndExtend(liveUntil.contract, contract_key, seq)]
         /\ last' = Call("record_event_auth", auths, arg, Ok, event_id)
         /\ UNCHANGED <<instance, ledger, carbon>>

----------------------------------------------------------------------------
(* The read path *)

ArithmeticOverflow == "ArithmeticOverflow"

RECURSIVE Resolve_stops_at_missing(_)
Resolve_stops_at_missing(event_ids) ==
    IF event_ids = <<>> \/ Head(event_ids) \notin DOMAIN events THEN <<>>
    ELSE <<events[Head(event_ids)]>> \o Resolve_stops_at_missing(Tail(event_ids))

(* the loop of lines 171-175: the stored events of the identifiers, in
   order, an identifier without a stored event being skipped *)
Resolve(event_ids) ==
    LET found == SelectSeq(event_ids, LAMBDA id : id \in DOMAIN events)
    IN [i \in 1..Len(found) |-> events[found[i]]]

(* Option<AuditEvent>: the empty set is None, {e} is Some(e) *)
get_event_result(event_id) ==
    IF event_id \in DOMAIN events THEN {events[event_id]} ELSE {}

get_events_by_entity_result(entity_id) ==
    Resolve(GetOr(entityIndex, entity_id, <<>>))

get_events_by_type_and_time_result(event_type, timestamp) ==
    Resolve(GetOr(typeTimeIndex, <<event_type, DayTimestamp(timestamp)>>, <<>>))

get_events_by_contract_result(emitter) ==
    Resolve(GetOr(contractIndex, emitter, <<>>))

(* lines 184-197 once `end` is known: the events of positions start..end-1 *)
PageOf(event_ids, start, end) ==
    Resolve([i \in 1..(IF end > start THEN end - start ELSE 0) |->
                event_ids[start + i]])

(* the outcomes of get_events_by_entity_paged. `start + limit` is a u32 sum:
   when it exceeds the u32 range the build decides, a panic with overflow
   checks and the wrapped sum without *)
get_events_by_entity_paged_result(entity_id, start, limit) ==
    LET event_ids == GetOr(entityIndex, entity_id, <<>>)
        total == U32(Len(event_ids))
        sum == U32Add(start, limit)
        end == U32Min(sum.value, total)
        page == [status |-> Ok,
                 ret |-> PageOf(event_ids, U32Small(start), U32Small(end))]
    IN IF ~U32Less(start, total) THEN {[status |-> Ok, ret |-> <<>>]}
       ELSE IF sum.overflow
       THEN {[status |-> ArithmeticOverflow, ret |-> NoRet], page}
       ELSE {page}

(* a read leaves every entry as it is *)
Read(op, arg, ret) ==
    /\ last' = Call(op, {}, arg, Ok, ret)
    /\ UNCHANGED <<instance, events, entityIndex, typeTimeIndex,
                   contractIndex, liveUntil, ledger, carbon>>

get_event_renews(event_id) ==
    /\ last' = Call("get_event", {}, event_id, Ok, get_event_result(event_id))
    /\ liveUntil' = [liveUntil EXCEPT !.events =
                        IF event_id \in DOMAIN events
                        THEN SetAndExtend(@, event_id, ledger.sequence_number)
                        ELSE @]
    /\ UNCHANGED <<instance, events, entityIndex, typeTimeIndex,
                   contractIndex, ledger, carbon>>

get_event(event_id) ==
    Read("get_event", event_id, get_event_result(event_id))

get_events_by_entity(entity_id) ==
    Read("get_events_by_entity", entity_id,
         get_events_by_entity_result(entity_id))

get_events_by_entity_paged(entity_id, start, limit) ==
    \E out \in get_events_by_entity_paged_result(entity_id, start, limit) :
        /\ last' = Call("get_events_by_entity_paged", {},
                        [entity_id |-> entity_id, start |-> start,
                         limit |-> limit],
                        out.status, out.ret)
        /\ UNCHANGED <<instance, events, entityIndex, typeTimeIndex,
                       contractIndex, liveUntil, ledger, carbon>>

get_events_by_type_and_time(event_type, timestamp) ==
    Read("get_events_by_type_and_time",
         [event_type |-> event_type, timestamp |-> timestamp],
         get_events_by_type_and_time_result(event_type, timestamp))

get_events_by_contract(emitter) ==
    Read("get_events_by_contract", emitter,
         get_events_by_contract_result(emitter))

(* the host closes a ledger: the clock and the ledger number advance *)
AdvanceLedger(dt) ==
    /\ ledger.sequence_number < MaxLedger
    /\ ledger' = [sequence_number |-> ledger.sequence_number + 1,
                  timestamp |-> ledger.timestamp + dt]
    /\ last' = Call("close_ledger", {}, dt, Ok, NoRet)
    /\ UNCHANGED <<instance, events, entityIndex, typeTimeIndex,
                   contractIndex, liveUntil, carbon>>

(* number of writes committed so far *)
RECURSIVE SumLen(_, _)
SumLen(map, keys) ==
    IF keys = {} THEN 0
    ELSE LET k == CHOOSE x \in keys : TRUE
         IN Len(map[k]) + SumLen(map, keys \ {k})

Written == SumLen(contractIndex, DOMAIN contractIndex)

(* every identity signs every invocation: env.mock_all_auths() of the tests *)
MockAllAuths == Address

(* the store under authenticated callers *)
Next ==
    \/ \E x \in Address : initialize(x)
    \/ \E x \in Address : authorize_emitter(MockAllAuths, x)
    \/ \E s \in Submission :
          Written < MaxEvents /\ record_event_auth(MockAllAuths, s)
    \/ \E dt \in TimeSteps : AdvanceLedger(dt)

Spec == Init /\ [][Next]_vars

(* the registry under every combination of signers, with one write per
   emitter *)
RegistrySubmission ==
    {s \in Submission : /\ s.tx_hash = 0
                        /\ s.event_type = "TOKEN_MINTED"
                        /\ s.primary_entity_id = "project-123"}

NextRegistry ==
    \/ \E x \in Address : initialize(x)
    \/ \E a \in AuthSets, x \in Address : authorize_emitter(a, x)
    \/ \E a \in AuthSets, x \in Address : revoke_emitter(a, x)
    \/ \E x \in Address : is_authorized(x)
    \/ \E a \in AuthSets, s \in RegistrySubmission :
          Written < MaxEvents /\ record_event_auth(a, s)
    \/ \E a \in AuthSets, s \in RegistrySubmission :
          record_event(a, s.event_type, s.primary_entity_id,
                       s.secondary_entity_id, s.event_data, s.tx_hash)
    \/ \E tx \in TxBytes : get_event(DeriveId(tx, ledger.timestamp))
    \/ \E x \in EntityIds : get_events_by_entity(x)
    \/ \E x \in EntityIds, start \in PageStarts, limit \in PageLimits :
          get_events_by_entity_paged(x, U32(start), U32(limit))
    \/ \E t \in EventTypes : get_events_by_type_and_time(t, ledger.timestamp)
    \/ \E x \in Address : get_events_by_contract(x)

SpecRegistry == Init /\ [][NextRegistry]_vars

(* the queries over the entries one emitter writes *)
QuerySubmission == {s \in Submission : s.emitter = "GA"}
QueryTimes == {ledger.timestamp, ledger.timestamp + DaySeconds}
QueryIds == DOMAIN events \cup {DeriveId(tx, ledger.timestamp) : tx \in TxBytes}

NextQuery ==
    \/ initialize("GA")
    \/ authorize_emitter(MockAllAuths, "GA")
    \/ \E s \in QuerySubmission :
          Written < MaxEvents /\ record_event_auth(MockAllAuths, s)
    \/ \E dt \in TimeSteps : AdvanceLedger(dt)
    \/ \E x \in Address : is_authorized(x)
    \/ \E id \in QueryIds : get_event(id)
    \/ \E x \in EntityIds : get_events_by_entity(x)
    \/ \E x \in EntityIds, start \in PageStarts, limit \in PageLimits :
          get_events_by_entity_paged(x, U32(start), U32(limit))
    \/ \E x \in EntityIds, start \in PageStarts :
          get_events_by_entity_paged(x, U32(start), U32Max)
    \/ \E t \in EventTypes, ts \in QueryTimes :
          get_events_by_type_and_time(t, ts)
    \/ \E x \in Address : get_events_by_contract(x)

SpecQuery == Init /\ [][NextQuery]_vars

(* the identifiers of every bucket of an index *)
ListedIn(index) == UNION {{index[k][i] : i \in 1..Len(index[k])} : k \in DOMAIN index}

(* Expiry of event records.  Line 136 renews an event record once, at its
   write (535680 ledgers, "~30 days", so about 5 seconds a ledger); a
   bucket is renewed at every write that pushes to it, so a record can pass
   its live-until ledger while the bucket that lists it is still live. *)
LedgerSeconds == 5

(* the ledgers of one retention period close *)
RetentionPasses ==
    /\ ledger.sequence_number <= MaxLedger
    /\ ledger' = [sequence_number |-> ledger.sequence_number + RetentionLedgers,
                  timestamp |-> ledger.timestamp + RetentionLedgers * LedgerSeconds]
    /\ last' = Call("close_ledger", {}, RetentionLedgers * LedgerSeconds, Ok, NoRet)
    /\ UNCHANGED <<instance, events, entityIndex, typeTimeIndex,
                   contractIndex, liveUntil, carbon>>

(* the host takes an event record past its live-until ledger out of the
   entries a read finds; the buckets keep its identifier *)
ExpireEvent(event_id) ==
    /\ event_id \in DOMAIN events
    /\ liveUntil.events[event_id] < ledger.sequence_number
    /\ events' = [id \in DOMAIN events \ {event_id} |-> events[id]]
    /\ liveUntil' = [liveUntil EXCEPT !.events =
                        [id \in DOMAIN liveUntil.events \ {event_id} |->
                            liveUntil.events[id]]]
    /\ last' = Call("expire", {}, event_id, Ok, NoRet)
    /\ UNCHANGED <<instance, entityIndex, typeTimeIndex, contractIndex, ledger,
                   carbon>>

ExpirySubmission ==
    {s \in QuerySubmission : s.primary_entity_id = "project-123"}
ExpiryTimes == {0, ledger.timestamp}
ExpiryIds == ListedIn(contractIndex)

NextExpiry ==
    \/ initialize("GA")
    \/ authorize_emitter(MockAllAuths, "GA")
    \/ \E s \in ExpirySubmission :
          Written < MaxEvents /\ record_event_auth(MockAllAuths, s)
    \/ \E dt \in TimeSteps : AdvanceLedger(dt)
    \/ RetentionPasses
    \/ \E id \in DOMAIN events : ExpireEvent(id)
    \/ \E id \in ExpiryIds \cup QueryIds : get_event(id)
    \/ \E x \in EntityIds : get_events_by_entity(x)
    \/ \E x \in EntityIds, start \in PageStarts, limit \in PageLimits :
          get_events_by_entity_paged(x, U32(start), U32(limit))
    \/ \E t \in EventTypes, ts \in ExpiryTimes :
          get_events_by_type_and_time(t, ts)
    \/ \E x \in Address : get_events_by_contract(x)

SpecExpiry == Init /\ [][NextExpiry]_vars

----------------------------------------------------------------------------
(* The carbon-asset contract *)

(* enum TokenStatus, lines 11-20 *)
Issued == "Issued"
Listed == "Listed"
Locked == "Locked"
Retired == "Retired"
Invalidated == "Invalidated"
TokenStatus == {Issued, Listed, Locked, Retired, Invalidated}

DefaultQualityScore == 100

(* inputs *)
TokenIds == {1}
Amounts == {0, 1, 2}
QualityScores == {50}
Metadatas == {[project_id |-> "project-123", vintage_year |-> 2024]}
RegulatoryChecks == {"CREG"}
TokenName == "CARBON"
TokenSymbol == "CO2"
TokenDecimals == 0

(* the panics of the carbon-asset contract *)
InvalidAmount == "Amount must be positive"
TokenExists == "Token ID already exists"
TokenNotFound == "Token ID not found"
TokenFrozen == "Token is frozen and cannot be transferred"
TokenLocked == "Token is locked and cannot be transferred"
RegulatoryRejected == "Transfer rejected by regulatory check"
InsufficientBalance == "Insufficient balance"

HasAsset(key) == key \in DOMAIN asset

(* a handler of the carbon-asset contract leaves the audit trail alone *)
AssetAbort(op, auths, arg, status) == Abort(op, auths, arg, status)

(* lines 86-112 *)
asset_initialize(admin, retirement_tracker) ==
    LET arg == [admin |-> admin, retirement_tracker |-> retirement_tracker]
    IN IF HasAsset("ADMIN")
       THEN AssetAbort("asset_initialize", {}, arg, AlreadyInitialized)
       ELSE /\ asset' = [ADMIN |-> admin,
                         RET_TRACK |-> retirement_tracker,
                         NAME |-> TokenName,
                         SYMBOL |-> TokenSymbol,
                         DECIMALS |-> TokenDecimals,
                         TOKEN_DATA |-> <<>>]
            /\ last' = Call("asset_initialize", {}, arg, Ok, NoRet)
            /\ UNCHANGED <<audit, balances>>

(* lines 444-447 and 450-454: the stored identity, when there is one, has to
   have signed; the outcome is Ok or the panic *)
RequireStored(key, auths) ==
    IF ~HasAsset(key) THEN NotInitialized
    ELSE IF asset[key] \notin auths THEN AuthRequired
    ELSE Ok

(* lines 118-122 *)
set_regulatory_check(auths, regulatory_check) ==
    IF RequireStored("ADMIN", auths) # Ok
    THEN AssetAbort("set_regulatory_check", auths, regulatory_check,
                    RequireStored("ADMIN", auths))
    ELSE /\ asset' = Put(asset, "REG_CHECK", regulatory_check)
         /\ last' = Call("set_regulatory_check", auths, regulatory_check, Ok, NoRet)
         /\ UNCHANGED <<audit, balances>>

(* lines 384-390: the balance of an address in a token, 0 when none is stored *)
balance_result(address, token_id) == GetOr(balances, <<address, token_id>>, 0)

(* lines 131-183 *)
mint(auths, to, amount, token_id, metadata) ==
    LET arg == [to |-> to, amount |-> amount, token_id |-> token_id]
    IN IF RequireStored("ADMIN", auths) # Ok
       THEN AssetAbort("mint", auths, arg, RequireStored("ADMIN", auths))
       ELSE IF amount <= 0
       THEN AssetAbort("mint", auths, arg, InvalidAmount)
       ELSE IF token_id \in DOMAIN asset["TOKEN_DATA"]
       THEN AssetAbort("mint", auths, arg, TokenExists)
       ELSE /\ asset' = Put(asset, "TOKEN_DATA",
                            Put(asset["TOKEN_DATA"], token_id,
                                [metadata |-> metadata,
                                 status |-> Issued,
                                 quality_score |-> DefaultQualityScore]))
            /\ balances' = Put(balances, <<to, token_id>>,
                               balance_result(to, token_id) + amount)
            /\ last' = Call("mint", auths, arg, Ok, NoRet)
            /\ UNCHANGED audit

update_token_status_keeps_status(inst, token_id, status) == inst

(* lines 457-468: the token data with the status of one token replaced *)
update_token_status(inst, token_id, status) ==
    Put(inst, "TOKEN_DATA",
        Put(inst["TOKEN_DATA"], token_id,
            [inst["TOKEN_DATA"][token_id] EXCEPT !.status = status]))

Transferable_unless_frozen(status) == status \notin {Retired, Invalidated}

(* lines 215-225: the statuses that let a transfer pass *)
Transferable(status) == status \in {Issued, Listed}

(* lines 228-232 and 477-514: the configured regulatory contract approves
   or rejects; without one the transfer passes *)
RegulatoryOutcomes == IF HasAsset("REG_CHECK") THEN BOOLEAN ELSE {TRUE}

MoveBalance_stale_read(bal, from, to, amount, token_id) ==
    LET from_balance == GetOr(bal, <<from, token_id>>, 0)
        to_balance == GetOr(bal, <<to, token_id>>, 0)
    IN Put(Put(bal, <<from, token_id>>, from_balance - amount),
           <<to, token_id>>, to_balance + amount)

(* lines 248-263: the sender's balance is written first, the receiver's
   balance is read after that write and written with the amount added *)
MoveBalance(bal, from, to, amount, token_id) ==
    LET debited == Put(bal, <<from, token_id>>,
                       GetOr(bal, <<from, token_id>>, 0) - amount)
        to_balance == GetOr(debited, <<to, token_id>>, 0)
    IN Put(debited, <<to, token_id>>, to_balance + amount)

(* lines 192-277 *)
transfer(auths, from, to, amount, token_id) ==
    LET arg == [from |-> from, to |-> to, amount |-> amount,
                token_id |-> token_id]
    IN IF amount <= 0
       THEN AssetAbort("transfer", auths, arg, InvalidAmount)
       ELSE IF from \notin auths
       THEN AssetAbort("transfer", auths, arg, AuthRequired)
       ELSE IF ~HasAsset("TOKEN_DATA")
       THEN AssetAbort("transfer", auths, arg, NotInitialized)
       ELSE IF token_id \notin DOMAIN asset["TOKEN_DATA"]
       THEN AssetAbort("transfer", auths, arg, TokenNotFound)
       ELSE IF ~Transferable(asset["TOKEN_DATA"][token_id].status)
       THEN AssetAbort("transfer", auths, arg,
                       IF asset["TOKEN_DATA"][token_id].status = Locked
                       THEN TokenLocked ELSE TokenFrozen)
       ELSE \E approved \in RegulatoryOutcomes :
            IF ~approved
            THEN AssetAbort("transfer", auths, arg, RegulatoryRejected)
            ELSE IF balance_result(from, token_id) < amount
            THEN AssetAbort("transfer", auths, arg, InsufficientBalance)
            ELSE    /\ balances' = MoveBalance(balances, from, to, amount, token_id)
                    /\ asset' = IF to = asset["RET_TRACK"]
                                THEN update_token_status(asset, token_id, Retired)
                                ELSE asset
                    /\ last' = Call("transfer", auths, arg, Ok, NoRet)
                    /\ UNCHANGED audit

(* lines 285-323 *)
burn(auths, from, amount, token_id) ==
    LET arg == [from |-> from, amount |-> amount, token_id |-> token_id]
    IN IF RequireStored("RET_TRACK", auths) # Ok
       THEN AssetAbort("burn", auths, arg, RequireStored("RET_TRACK", auths))
       ELSE IF amount <= 0
       THEN AssetAbort("burn", auths, arg, InvalidAmount)
       ELSE IF balance_result(from, token_id) < amount
       THEN AssetAbort("burn", auths, arg, InsufficientBalance)
       ELSE IF token_id \notin DOMAIN asset["TOKEN_DATA"]
       THEN AssetAbort("burn", auths, arg, TokenNotFound)
       ELSE /\ balances' = Put(balances, <<from, token_id>>,
                               balance_result(from, token_id) - amount)
            /\ last' = Call("burn", auths, arg, Ok, NoRet)
            /\ UNCHANGED <<audit, asset>>

(* lines 330-350 *)
update_status(auths, token_id, status) ==
    LET arg == [token_id |-> token_id, status |-> status]
    IN IF RequireStored("ADMIN", auths) # Ok
       THEN AssetAbort("update_status", auths, arg, RequireStored("ADMIN", auths))
       ELSE IF token_id \notin DOMAIN asset["TOKEN_DATA"]
       THEN AssetAbort("update_status", auths, arg, TokenNotFound)
       ELSE /\ asset' = update_token_status(asset, token_id, status)
            /\ last' = Call("update_status", auths, arg, Ok, NoRet)
            /\ UNCHANGED <<audit, balances>>

(* lines 357-377 *)
update_quality_score(auths, token_id, quality_score) ==
    LET arg == [token_id |-> token_id, quality_score |-> quality_score]
    IN IF RequireStored("ADMIN", auths) # Ok
       THEN AssetAbort("update_quality_score", auths, arg,
                       RequireStored("ADMIN", auths))
       ELSE IF token_id \notin DOMAIN asset["TOKEN_DATA"]
       THEN AssetAbort("update_quality_score", auths, arg, TokenNotFound)
       ELSE /\ asset' = Put(asset, "TOKEN_DATA",
                            Put(asset["TOKEN_DATA"], token_id,
                                [asset["TOKEN_DATA"][token_id]
                                    EXCEPT !.quality_score = quality_score]))
            /\ last' = Call("update_quality_score", auths, arg, Ok, NoRet)
            /\ UNCHANGED <<audit, balances>>

(* lines 384-390 *)
balance(address, token_id) ==
    Read("balance", [address |-> address, token_id |-> token_id],
         balance_result(address, token_id))

(* lines 400-402: the status of the token, none ({}) when it was not minted *)
get_status_result(token_id) ==
    IF token_id \in DOMAIN asset["TOKEN_DATA"]
    THEN {asset["TOKEN_DATA"][token_id].status}
    ELSE {}

(* lines 400-402 *)
get_status(token_id) ==
    IF ~HasAsset("TOKEN_DATA")
    THEN AssetAbort("get_status", {}, token_id, NotInitialized)
    ELSE Read("get_status", token_id, get_status_result(token_id))

NextAsset ==
    \/ \E admin \in Address, tracker \in Address : asset_initialize(admin, tracker)
    \/ \E a \in AuthSets, c \in RegulatoryChecks : set_regulatory_check(a, c)
    \/ \E a \in AuthSets, to \in Address, amount \in Amounts, id \in TokenIds,
          metadata \in Metadatas : mint(a, to, amount, id, metadata)
    \/ \E a \in AuthSets, from \in Address, to \in Address, amount \in Amounts,
          id \in TokenIds : transfer(a, from, to, amount, id)
    \/ \E a \in AuthSets, from \in Address, amount \in Amounts, id \in TokenIds :
          burn(a, from, amount, id)
    \/ \E a \in AuthSets, id \in TokenIds, status \in TokenStatus :
          update_status(a, id, status)
    \/ \E a \in AuthSets, id \in TokenIds, score \in QualityScores :
          update_quality_score(a, id, score)
    \/ \E x \in Address, id \in TokenIds : balance(x, id)
    \/ \E id \in TokenIds : get_status(id)

SpecAsset == Init /\ [][NextAsset]_vars

----------------------------------------------------------------------------
(* Properties *)

WroteOk == last.op = "record_event_auth" /\ last.status = Ok

(* how many events of a result carry the identifier *)
Occurrences(event_id, result) ==
    Cardinality({i \in 1..Len(result) : result[i].event_id = event_id})

(* timestamps of the day of ts: its first second, ts itself, its last second *)
SameDay(ts) == {DayTimestamp(ts), ts, DayTimestamp(ts) + DaySeconds - 1}

DuplicateIdentifier == "DuplicateIdentifier"

(* C1: right after a successful record_event_auth the returned identifier
   is retrievable with get_event and occurs exactly once in the results of
   get_events_by_entity(primary entity), get_events_by_contract(emitter) and
   get_events_by_type_and_time(type, t) for every t of the day of the write.
   The code breaks it: a second write with the same transaction reference
   at the same timestamp pushes the same identifier again. *)
C1_returned_id_once_in_each_index ==
    WroteOk =>
        /\ get_event_result(last.ret) # {}
        /\ Occurrences(last.ret,
               get_events_by_entity_result(last.arg.primary_entity_id)) = 1
        /\ Occurrences(last.ret,
               get_events_by_contract_result(last.arg.emitter)) = 1
        /\ \A t \in SameDay(ledger.timestamp) :
               Occurrences(last.ret,
                   get_events_by_type_and_time_result(last.arg.event_type, t)) = 1

(* C2: a write by an authenticated emitter whose flag in the allow-list is
   absent or false fails with NotAuthorized and leaves the event store, the
   three indices and their lifetimes as they were. *)
C2_unlisted_emitter_rejected ==
    [][(/\ last'.op = "record_event_auth"
        /\ last'.arg.emitter \in last'.auths
        /\ Has("AuthorizedEmitters")
        /\ ~is_authorized_result(last'.arg.emitter))
       => (/\ last'.status = NotAuthorized
           /\ UNCHANGED <<store, liveUntil>>)]_vars

(* a revoked emitter that had written before is refused *)
C2_witness ==
    /\ last.op = "record_event_auth"
    /\ last.status = NotAuthorized
    /\ last.arg.emitter \in DOMAIN instance["AuthorizedEmitters"]
    /\ last.arg.emitter \in DOMAIN contractIndex

(* C3: a write whose (transaction reference, timestamp) derive an identifier
   that is already stored fails with DuplicateIdentifier and writes nothing.
   The code breaks it: line 134 stores unconditionally. *)
C3_duplicate_identifier_rejected ==
    [][(/\ last'.op = "record_event_auth"
        /\ Has("AuthorizedEmitters")
        /\ is_authorized_result(last'.arg.emitter)
        /\ last'.arg.emitter \in last'.auths
        /\ DeriveId(last'.arg.tx_hash, ledger.timestamp) \in DOMAIN events)
       => (/\ last'.status = DuplicateIdentifier
           /\ UNCHANGED <<store, liveUntil>>)]_vars

(* C4: a stored event stays stored and keeps every field, whatever step
   follows.  The code breaks it: a write deriving a stored identifier
   replaces the event. *)
C4_events_immutable ==
    [][\A id \in DOMAIN events :
          id \in DOMAIN events' /\ events'[id] = events[id]]_vars

(* C5: referential integrity: every identifier in a bucket of the entity,
   type-time or contract index resolves, with get_event, to one event, and
   that event is stored under this identifier. *)
C5_referential_integrity ==
    \A id \in ListedIn(entityIndex) \cup ListedIn(typeTimeIndex)
              \cup ListedIn(contractIndex) :
        /\ Cardinality(get_event_result(id)) = 1
        /\ \A e \in get_event_result(id) : e.event_id = id

(* after two writes, the latest one listed in a bucket of two *)
C5_witness ==
    /\ WroteOk
    /\ Cardinality(DOMAIN events) = 2
    /\ \E k \in DOMAIN entityIndex :
          Len(entityIndex[k]) = 2 /\ entityIndex[k][2] = last.ret

(* C6: is_authorized(e) is false right after initialize for every e, turns
   true only by a successful authorize_emitter(e), is true right after it,
   and is false right after a successful revoke_emitter(e). *)
C6_flag_follows_authorize_and_revoke ==
    /\ [](last.status = Ok =>
            /\ last.op = "initialize" =>
                  \A e \in Address : ~is_authorized_result(e)
            /\ last.op = "authorize_emitter" => is_authorized_result(last.arg)
            /\ last.op = "revoke_emitter" => ~is_authorized_result(last.arg))
    /\ [][\A e \in Address :
            (/\ Has("AuthorizedEmitters")
             /\ ~is_authorized_result(e)
             /\ is_authorized_result(e)')
            => (/\ last'.op = "authorize_emitter"
                /\ last'.status = Ok
                /\ last'.arg = e)]_vars

(* an emitter that wrote while authorized is revoked, the other one stays
   authorized *)
C6_witness ==
    /\ last.op = "revoke_emitter"
    /\ last.status = Ok
    /\ last.arg \in DOMAIN contractIndex
    /\ ~is_authorized_result(last.arg)
    /\ \E e \in Address \ {last.arg} : is_authorized_result(e)

(* C7: the allow-list changes only by an authorize_emitter or revoke_emitter
   that the stored administrator signed; such a call without that signature
   fails and leaves the instance entries as they were. *)
C7_only_admin_changes_allow_list ==
    [][/\ (/\ Has("AuthorizedEmitters")
           /\ instance'["AuthorizedEmitters"] # instance["AuthorizedEmitters"])
          => (/\ last'.op \in {"authorize_emitter", "revoke_emitter"}
              /\ last'.status = Ok
              /\ instance["Admin"] \in last'.auths)
       /\ (/\ last'.op \in {"authorize_emitter", "revoke_emitter"}
           /\ Has("Admin")
           /\ instance["Admin"] \notin last'.auths)
          => (/\ last'.status = AuthRequired
              /\ UNCHANGED instance)]_vars

(* a signer other than the administrator is refused on a non-empty list *)
C7_witness ==
    /\ last.op \in {"authorize_emitter", "revoke_emitter"}
    /\ last.status = AuthRequired
    /\ last.auths # {}
    /\ DOMAIN instance["AuthorizedEmitters"] # {}

(* C8: the first initialize stores its admin and an empty allow-list; every
   later initialize fails with AlreadyInitialized and leaves the instance
   entries as they were; the stored admin never changes. *)
C8_initialize_once ==
    [][/\ last'.op = "initialize" =>
            IF Has("Admin")
            THEN last'.status = AlreadyInitialized /\ UNCHANGED instance
            ELSE /\ last'.status = Ok
                 /\ DOMAIN instance' = {"Admin", "AuthorizedEmitters"}
                 /\ instance'["Admin"] = last'.arg
                 /\ DOMAIN instance'["AuthorizedEmitters"] = {}
       /\ Has("Admin") =>
            Has("Admin")' /\ instance'["Admin"] = instance["Admin"]]_vars

(* a second initialize naming another admin is refused on a non-empty list *)
C8_witness ==
    /\ last.op = "initialize"
    /\ last.status = AlreadyInitialized
    /\ last.arg # instance["Admin"]
    /\ DOMAIN instance["AuthorizedEmitters"] # {}

(* C9: get_events_by_entity_paged(entity, start, limit) returns the empty
   sequence when start >= total, and otherwise min(limit, total - start)
   events, those of positions start, start+1, .. of the entity's bucket.
   The code breaks it when start + limit leaves the u32 range. *)
C9_page_is_the_requested_slice ==
    last.op = "get_events_by_entity_paged" =>
        LET event_ids == GetOr(entityIndex, last.arg.entity_id, <<>>)
            total == Len(event_ids)
            start == U32Small(last.arg.start)
            count == IF U32Less(last.arg.limit, U32(total - start))
                     THEN U32Small(last.arg.limit)
                     ELSE total - start
        IN /\ last.status = Ok
           /\ IF start >= total
              THEN last.ret = <<>>
              ELSE /\ Len(last.ret) = count
                   /\ \A k \in 1..count :
                         last.ret[k] = events[event_ids[start + k]]

(* C10: right after a successful write the event record and the three
   buckets it was pushed to live at least 535680 ledgers from the ledger of
   the write. *)
C10_touched_keys_renewed ==
    WroteOk =>
        LET horizon == ledger.sequence_number + RetentionLedgers
        IN /\ liveUntil.events[last.ret] >= horizon
           /\ liveUntil.entity[last.arg.primary_entity_id] >= horizon
           /\ liveUntil.typeTime[<<last.arg.event_type,
                                   DayTimestamp(ledger.timestamp)>>] >= horizon
           /\ liveUntil.contract[last.arg.emitter] >= horizon

(* a write into buckets that an earlier ledger had created *)
C10_witness ==
    /\ WroteOk
    /\ ledger.sequence_number > 0
    /\ Len(entityIndex[last.arg.primary_entity_id]) = 2
    /\ Len(contractIndex[last.arg.emitter]) = 2
    /\ \E id \in DOMAIN liveUntil.events :
          liveUntil.events[id] < liveUntil.events[last.ret]

(* C11: a write that the emitter named in its arguments did not sign fails
   with AuthRequired and changes no entry, also when that emitter is on the
   allow-list; whenever an event is stored, the step is a successful write
   signed by the event's emitting_contract, whose flag was true. *)
C11_write_only_from_named_identity ==
    [][/\ (last'.op = "record_event_auth" /\ last'.arg.emitter \notin last'.auths)
          => (/\ last'.status = AuthRequired
              /\ UNCHANGED <<instance, store, liveUntil>>)
       /\ \A id \in DOMAIN events' :
            (id \notin DOMAIN events \/ events'[id] # events[id])
            => (/\ last'.op = "record_event_auth"
                /\ last'.status = Ok
                /\ last'.ret = id
                /\ events'[id].emitting_contract = last'.arg.emitter
                /\ last'.arg.emitter \in last'.auths
                /\ is_authorized_result(last'.arg.emitter))]_vars

(* an emitter on the allow-list is named in a write that only the other
   identity signed *)
C11_witness ==
    /\ last.op = "record_event_auth"
    /\ last.status = AuthRequired
    /\ last.auths # {}
    /\ Has("AuthorizedEmitters")
    /\ is_authorized_result(last.arg.emitter)

(* C12: the identifier a successful write returns depends on the transaction
   reference and the ledger timestamp only: it equals the identifier of an
   earlier write, whose event is stored, exactly when both writes have the
   same transaction reference and the same timestamp, whatever their
   emitter, type, entities and payload. *)
C12_id_from_tx_and_timestamp_only ==
    [][(last'.op = "record_event_auth" /\ last'.status = Ok)
       => \A id \in DOMAIN events :
            (last'.ret = id)
            <=> (/\ events[id].tx_hash = TxArray(last'.arg.tx_hash)
                 /\ events[id].timestamp = ledger'.timestamp)]_vars

(* a write with the transaction reference of an earlier write, at another
   timestamp, got another identifier *)
C12_witness ==
    /\ WroteOk
    /\ \E id \in DOMAIN events :
         /\ id # last.ret
         /\ events[id].tx_hash = TxArray(last.arg.tx_hash)
         /\ events[id].timestamp # ledger.timestamp

(* the timestamps of a result never decrease along the sequence *)
NonDecreasing(result) ==
    \A i, j \in 1..Len(result) : i < j => result[i].timestamp <= result[j].timestamp

(* C13: the results list the events in the order of their writes: a
   successful write leaves the earlier result of its entity, of its emitter
   and of its (type, day) bucket in place and puts its event after them,
   and the timestamps of each of these results never decrease.  The code
   breaks it: a write deriving a stored identifier replaces the event at
   the position of the earlier write, so the later event stands before
   events written before it. *)
C13_results_in_write_order ==
    [][(last'.op = "record_event_auth" /\ last'.status = Ok)
       => LET event == events'[last'.ret]
          IN /\ \A x \in EntityIds :
                  x = last'.arg.primary_entity_id
                  => /\ get_events_by_entity_result(x)'
                          = Append(get_events_by_entity_result(x), event)
                     /\ NonDecreasing(get_events_by_entity_result(x)')
             /\ \A x \in Address :
                  x = last'.arg.emitter
                  => /\ get_events_by_contract_result(x)'
                          = Append(get_events_by_contract_result(x), event)
                     /\ NonDecreasing(get_events_by_contract_result(x)')
             /\ \A t \in EventTypes :
                  t = last'.arg.event_type
                  => /\ get_events_by_type_and_time_result(t, ledger.timestamp)'
                          = Append(get_events_by_type_and_time_result(
                                       t, ledger.timestamp), event)
                     /\ NonDecreasing(get_events_by_type_and_time_result(
                                          t, ledger.timestamp)')]_vars

(* C14: right after get_events_by_type_and_time(T, t): every timestamp of
   the day of t gives the same result, every returned event has type T and
   a timestamp of the day of t, and every stored event of type T and of
   that day is returned.  The code breaks it: the bucket of (T, day) keeps
   the identifier of an event that a later write replaced by an event of
   another type. *)
C14_result_is_type_and_day ==
    (last.op = "get_events_by_type_and_time" /\ last.status = Ok)
    => LET T == last.arg.event_type
           t == last.arg.timestamp
       IN /\ \A t2 \in SameDay(t) :
                get_events_by_type_and_time_result(T, t2) = last.ret
          /\ \A i \in 1..Len(last.ret) :
                /\ last.ret[i].event_type = T
                /\ DayTimestamp(last.ret[i].timestamp) = DayTimestamp(t)
          /\ \A id \in DOMAIN events :
                (/\ events[id].event_type = T
                 /\ DayTimestamp(events[id].timestamp) = DayTimestamp(t))
                => \E i \in 1..Len(last.ret) : last.ret[i] = events[id]

(* the stored events of the identifiers, in the order of the identifiers *)
Remaining(event_ids, result) ==
    LET pos == {i \in 1..Len(event_ids) : event_ids[i] \in DOMAIN events}
    IN /\ Len(result) = Cardinality(pos)
       /\ \A i \in pos :
            result[Cardinality({j \in pos : j <= i})] = events[event_ids[i]]

(* C15: a read completes whether or not the event records of the listed
   identifiers are stored: each of the four list queries returns the stored
   events of its bucket (of its page of the bucket) in bucket order, leaving
   out the identifiers without a record, and get_event returns none for an
   identifier without a record. *)
C15_reads_skip_missing_events ==
    /\ last.op = "get_event"
       => /\ last.status = Ok
          /\ (last.arg \notin DOMAIN events => last.ret = {})
          /\ (last.arg \in DOMAIN events => last.ret = {events[last.arg]})
    /\ last.op = "get_events_by_entity"
       => /\ last.status = Ok
          /\ Remaining(GetOr(entityIndex, last.arg, <<>>), last.ret)
    /\ last.op = "get_events_by_contract"
       => /\ last.status = Ok
          /\ Remaining(GetOr(contractIndex, last.arg, <<>>), last.ret)
    /\ last.op = "get_events_by_type_and_time"
       => /\ last.status = Ok
          /\ Remaining(GetOr(typeTimeIndex,
                             <<last.arg.event_type,
                               DayTimestamp(last.arg.timestamp)>>, <<>>),
                       last.ret)
    /\ last.op = "get_events_by_entity_paged"
       => LET event_ids == GetOr(entityIndex, last.arg.entity_id, <<>>)
              start == U32Small(last.arg.start)
              sum == start + U32Small(last.arg.limit)
              end == IF sum < Len(event_ids) THEN sum ELSE Len(event_ids)
          IN /\ last.status = Ok
             /\ Remaining(SubSeq(event_ids, start + 1, end), last.ret)

(* the bucket of an entity lists an identifier without a record before one
   with a record, and get_events_by_entity has returned the stored one *)
C15_witness ==
    /\ last.op = "get_events_by_entity"
    /\ last.ret # <<>>
    /\ LET event_ids == GetOr(entityIndex, last.arg, <<>>)
       IN \E i, j \in 1..Len(event_ids) :
             /\ i < j
             /\ event_ids[i] \notin DOMAIN events
             /\ event_ids[j] \in DOMAIN events

ReadOps == {"is_authorized", "get_event", "get_events_by_entity",
            "get_events_by_entity_paged", "get_events_by_type_and_time",
            "get_events_by_contract"}

(* C16: a read leaves the administrator, the allow-list, every event, every
   bucket, every live-until ledger and the ledger as they are, and what it
   returns is determined by its arguments and the entries it leaves, so the
   same read in the same state returns the same result. *)
C16_reads_change_nothing ==
    [][last'.op \in ReadOps
       => /\ UNCHANGED <<instance, store, liveUntil, ledger>>
          /\ (last'.op = "is_authorized" /\ last'.status = Ok)
             => last'.ret = is_authorized_result(last'.arg)
          /\ last'.op = "get_event"
             => last'.ret = get_event_result(last'.arg)
          /\ last'.op = "get_events_by_entity"
             => last'.ret = get_events_by_entity_result(last'.arg)
          /\ last'.op = "get_events_by_contract"
             => last'.ret = get_events_by_contract_result(last'.arg)
          /\ last'.op = "get_events_by_type_and_time"
             => last'.ret = get_events_by_type_and_time_result(
                                last'.arg.event_type, last'.arg.timestamp)
          /\ last'.op = "get_events_by_entity_paged"
             => [status |-> last'.status, ret |-> last'.ret]
                \in get_events_by_entity_paged_result(
                        last'.arg.entity_id, last'.arg.start, last'.arg.limit)]_vars

(* get_event has returned an event written in an earlier ledger, whose
   live-until ledger is the one its write set *)
C16_witness ==
    /\ last.op = "get_event"
    /\ last.ret # {}
    /\ liveUntil.events[last.arg] < ledger.sequence_number + RetentionLedgers

(* the operation of the latest invocation, invoked once more by the same
   signers on the same emitter *)
SameAgain ==
    IF last.op = "authorize_emitter"
    THEN authorize_emitter(last.auths, last.arg)
    ELSE revoke_emitter(last.auths, last.arg)

(* C17: authorize_emitter and revoke_emitter are idempotent: in the state
   a successful authorize_emitter(e) or revoke_emitter(e) leaves, the same
   call succeeds again and no second application changes the
   administrator, the allow-list or any other entry. *)
C17_authorize_and_revoke_idempotent ==
    (last.op \in {"authorize_emitter", "revoke_emitter"} /\ last.status = Ok)
    => /\ ENABLED (SameAgain /\ last'.status = Ok)
       /\ ~ENABLED (SameAgain /\ <<instance, store, liveUntil, ledger>>'
                                    # <<instance, store, liveUntil, ledger>>)

(* revoke_emitter has succeeded on an identity that wrote no event *)
C17_witness ==
    /\ last.op = "revoke_emitter"
    /\ last.status = Ok
    /\ ~is_authorized_result(last.arg)
    /\ last.arg \notin DOMAIN contractIndex

(* the timestamps a query of this state is made with: of the first day, of
   the current day and of the day after *)
AnyDay == {0, ledger.timestamp, ledger.timestamp + DaySeconds}

(* C20: in every state the results match the key they were asked for: each
   event of get_events_by_entity(x) has primary_entity_id x, each event of
   get_events_by_contract(e) has emitting_contract e, and each event of
   get_events_by_type_and_time(T, t) has event_type T and a timestamp of the
   day of t.  The code breaks it: a bucket keeps the identifier of an event
   that a later write replaced by an event of another entity, emitter or
   type. *)
C20_results_match_their_key ==
    /\ \A x \in EntityIds :
         LET result == get_events_by_entity_result(x)
         IN \A i \in 1..Len(result) : result[i].primary_entity_id = x
    /\ \A e \in Address :
         LET result == get_events_by_contract_result(e)
         IN \A i \in 1..Len(result) : result[i].emitting_contract = e
    /\ \A T \in EventTypes, t \in AnyDay :
         LET result == get_events_by_type_and_time_result(T, t)
         IN \A i \in 1..Len(result) :
               /\ result[i].event_type = T
               /\ DayTimestamp(result[i].timestamp) = DayTimestamp(t)

(* the status of a minted token *)
StatusOf(token_id) == asset["TOKEN_DATA"][token_id].status

Minted(token_id) == HasAsset("TOKEN_DATA") /\ token_id \in DOMAIN asset["TOKEN_DATA"]

(* C18: a transfer succeeds only on a token whose status is Issued or
   Listed; a transfer of a token whose status is Locked, Retired or
   Invalidated fails, whoever signed and whatever the balances, and leaves
   every balance and the token data unchanged. *)
C18_transfer_only_when_issued_or_listed ==
    [][last'.op = "transfer"
       => /\ (/\ Minted(last'.arg.token_id)
              /\ StatusOf(last'.arg.token_id) \in {Locked, Retired, Invalidated})
             => (last'.status # Ok /\ UNCHANGED <<balances, asset>>)
          /\ last'.status = Ok
             => (/\ Minted(last'.arg.token_id)
                 /\ StatusOf(last'.arg.token_id) \in {Issued, Listed})]_vars

(* a transfer that its sender signed and whose amount the sender holds has
   failed on the status of the token *)
C18_witness ==
    /\ last.op = "transfer"
    /\ last.status \in {TokenLocked, TokenFrozen}
    /\ last.arg.from \in last.auths
    /\ balance_result(last.arg.from, last.arg.token_id) >= last.arg.amount

(* C19: retirement is permanent: a token whose status is Retired has status
   Retired after every step.  The code breaks it: update_status stores
   whatever status the administrator passes. *)
C19_retired_stays_retired ==
    [][\A id \in TokenIds :
          (Minted(id) /\ StatusOf(id) = Retired)
          => (Minted(id)' /\ StatusOf(id)' = Retired)]_vars

(* C21: the three indices move in lock-step with the store: the
   identifiers listed across the entity buckets, across the type-time
   buckets and across the contract buckets are the same set, which is the
   set of the identifiers of the stored events, and the three index
   families hold the same number of entries. *)
C21_indices_in_lock_step ==
    /\ ListedIn(entityIndex) = DOMAIN events
    /\ ListedIn(typeTimeIndex) = DOMAIN events
    /\ ListedIn(contractIndex) = DOMAIN events
    /\ SumLen(entityIndex, DOMAIN entityIndex)
         = SumLen(typeTimeIndex, DOMAIN typeTimeIndex)
    /\ SumLen(typeTimeIndex, DOMAIN typeTimeIndex)
         = SumLen(contractIndex, DOMAIN contractIndex)

(* two writes went to two entities and to one (type, day) bucket *)
C21_witness ==
    /\ WroteOk
    /\ Written = 2
    /\ Cardinality(DOMAIN entityIndex) = 2
    /\ Cardinality(DOMAIN typeTimeIndex) = 1

(* the first second of the day of a timestamp *)
DayOf(ts) == ts - (ts % DaySeconds)

(* `after` is `before` with `value` under `key` and nothing else changed *)
OnlyKeyChanged(before, after, key) ==
    /\ DOMAIN after = DOMAIN before \cup {key}
    /\ \A k \in DOMAIN before : k # key => after[k] = before[k]

(* the bucket of `key` keeps its contents and gains event_id at the end,
   every other bucket of the index is unchanged *)
Appended(before, after, key, event_id) ==
    /\ OnlyKeyChanged(before, after, key)
    /\ after[key] = Append(GetOr(before, key, <<>>), event_id)

(* C22: a successful write changes four keys and no more: the event record
   under the returned identifier, and the buckets of its primary entity, of
   its (type, day) and of its emitter, each of which keeps its contents and
   gains the identifier as last element; instance storage, every other
   event, every other bucket and the live-until ledger of every other key
   are unchanged. *)
C22_write_changes_four_keys ==
    [][(last'.op = "record_event_auth" /\ last'.status = Ok)
       => LET s == last'.arg
              id == last'.ret
              day_key == <<s.event_type, DayOf(ledger.timestamp)>>
          IN /\ OnlyKeyChanged(events, events', id)
             /\ Appended(entityIndex, entityIndex', s.primary_entity_id, id)
             /\ Appended(typeTimeIndex, typeTimeIndex', day_key, id)
             /\ Appended(contractIndex, contractIndex', s.emitter, id)
             /\ OnlyKeyChanged(liveUntil.events, liveUntil'.events, id)
             /\ OnlyKeyChanged(liveUntil.entity, liveUntil'.entity,
                               s.primary_entity_id)
             /\ OnlyKeyChanged(liveUntil.typeTime, liveUntil'.typeTime, day_key)
             /\ OnlyKeyChanged(liveUntil.contract, liveUntil'.contract, s.emitter)
             /\ UNCHANGED <<instance, ledger>>]_vars

(* the second write of an emitter, in a second that is not the first of its
   day, with the bucket of another entity left alone *)
C22_witness ==
    /\ WroteOk
    /\ Len(contractIndex[last.arg.emitter]) = 2
    /\ Cardinality(DOMAIN entityIndex) = 2
    /\ ledger.timestamp % DaySeconds # 0

(* C23: for every start and limit of the u32 range,
   get_events_by_entity_paged(entity, start, limit) completes and returns
   the elements of get_events_by_entity(entity) at the positions start up to,
   not including, min(start + limit, total), the sum being the mathematical
   one.  The code breaks it: `start + limit` is computed in u32, and when
   it exceeds 2^32 - 1 the call panics or slices up to the wrapped sum. *)
C23_page_over_the_u32_range ==
    last.op = "get_events_by_entity_paged"
    => LET all == get_events_by_entity_result(last.arg.entity_id)
           total == Len(all)
           start == last.arg.start
           limit == last.arg.limit
           (* min(start + limit, total) without forming the sum *)
           end == IF U32Less(limit, U32(total - U32Small(start)))
                  THEN U32Small(start) + U32Small(limit)
                  ELSE total
       IN /\ last.status = Ok
          /\ last.ret = IF U32Less(start, U32(total))
                        THEN SubSeq(all, U32Small(start) + 1, end)
                        ELSE <<>>

(* C24: every event stored under key k carries event_id = k, and k is the
   identifier derived from the event's own tx_hash and timestamp; right
   after a successful write get_event of the returned identifier gives the
   record with the submitted type, entities, payload and transaction
   reference, the emitter of the call and the ledger timestamp. *)
C24_stored_record_is_what_was_written ==
    /\ \A k \in DOMAIN events :
         /\ events[k].event_id = k
         /\ k = Sha256(events[k].tx_hash \o ToBeBytes(events[k].timestamp))
    /\ WroteOk
       => /\ Cardinality(get_event_result(last.ret)) = 1
          /\ \A e \in get_event_result(last.ret) :
               /\ e.event_id = last.ret
               /\ e.event_type = last.arg.event_type
               /\ e.primary_entity_id = last.arg.primary_entity_id
               /\ e.secondary_entity_id = last.arg.secondary_entity_id
               /\ e.event_data = last.arg.event_data
               /\ Len(e.tx_hash) = HashLen
               /\ \A i \in 1..HashLen : e.tx_hash[i] = last.arg.tx_hash
               /\ e.emitting_contract = last.arg.emitter
               /\ last.arg.emitter \in last.auths
               /\ e.timestamp = ledger.timestamp

(* a write with a non-zero transaction reference and a secondary entity,
   after the clock has moved *)
C24_witness ==
    /\ WroteOk
    /\ last.arg.tx_hash # 0
    /\ last.arg.secondary_entity_id # NoneStr
    /\ ledger.timestamp > 0

(* the result holds the event *)
Returns(result, event) == \E i \in 1..Len(result) : result[i] = event

(* the buckets of the index that list the identifier live at least as long
   as `horizon` *)
BucketsOutlive(index, ttlMap, event_id, horizon) ==
    \A key \in DOMAIN index :
        (\E i \in 1..Len(index[key]) : index[key][i] = event_id)
        => ttlMap[key] >= horizon

(* C25: for every stored event, each bucket that lists its identifier has a
   live-until ledger at least that of the event record, so a bucket is past
   its live-until ledger only when the events it lists are; the stored
   event is returned by get_event and by the queries of its entity, its
   (type, day) and its emitter; and an event record leaves the entries only
   past its live-until ledger. *)
C25_buckets_outlive_their_events ==
    /\ [](\A k \in DOMAIN events :
            LET horizon == liveUntil.events[k]
            IN /\ BucketsOutlive(entityIndex, liveUntil.entity, k, horizon)
               /\ BucketsOutlive(typeTimeIndex, liveUntil.typeTime, k, horizon)
               /\ BucketsOutlive(contractIndex, liveUntil.contract, k, horizon)
               /\ get_event_result(k) = {events[k]}
               /\ Returns(get_events_by_entity_result(events[k].primary_entity_id),
                          events[k])
               /\ Returns(get_events_by_type_and_time_result(
                              events[k].event_type, events[k].timestamp),
                          events[k])
               /\ Returns(get_events_by_contract_result(
                              events[k].emitting_contract), events[k]))
    /\ [][\A k \in DOMAIN events :
            k \notin DOMAIN events'
            => liveUntil.events[k] < ledger.sequence_number]_vars

(* a retention period after its write an event is still stored, in a bucket
   that a later write renewed *)
C25_witness ==
    /\ ledger.sequence_number >= RetentionLedgers
    /\ \E k \in DOMAIN events, x \in DOMAIN entityIndex :
         /\ \E i \in 1..Len(entityIndex[x]) : entityIndex[x][i] = k
         /\ liveUntil.entity[x] > liveUntil.events[k]

(* C26: authorize_emitter(e) and revoke_emitter(e) change the flag of e
   and nothing else: the administrator, the flags of the other identities,
   the events, the buckets, the lifetimes and the ledger are unchanged, so
   the events of e are still returned after its revocation, and right
   after a successful authorize_emitter(e) a write that e signs succeeds. *)
C26_only_the_flag_of_e_changes ==
    /\ [][last'.op \in {"authorize_emitter", "revoke_emitter"}
          => /\ UNCHANGED <<store, liveUntil, ledger>>
             /\ DOMAIN instance' = DOMAIN instance
             /\ Has("Admin") => instance'["Admin"] = instance["Admin"]
             /\ Has("AuthorizedEmitters")
                => \A e \in Address \ {last'.arg} :
                      /\ e \in DOMAIN instance'["AuthorizedEmitters"]
                         <=> e \in DOMAIN instance["AuthorizedEmitters"]
                      /\ is_authorized_result(e)' = is_authorized_result(e)
             /\ \A k \in DOMAIN events :
                   /\ get_event_result(k)' = {events[k]}
                   /\ Returns(get_events_by_contract_result(
                                  events[k].emitting_contract)', events[k])
                   /\ Returns(get_events_by_entity_result(
                                  events[k].primary_entity_id)', events[k])
                   /\ Returns(get_events_by_type_and_time_result(
                                  events[k].event_type, events[k].timestamp)',
                              events[k])]_vars
    /\ []((last.op = "authorize_emitter" /\ last.status = Ok)
          => \A s \in RegistrySubmission :
                s.emitter = last.arg
                => ENABLED (record_event_auth({last.arg}, s) /\ last'.status = Ok))

(* the administrator authorizes an emitter that has written, while the flag
   of the other identity is stored as false *)
C26_witness ==
    /\ last.op = "authorize_emitter"
    /\ last.status = Ok
    /\ last.arg \in DOMAIN contractIndex
    /\ \E e \in DOMAIN instance["AuthorizedEmitters"] \ {last.arg} :
          ~is_authorized_result(e)

ListQueries == {"get_events_by_entity", "get_events_by_entity_paged",
                "get_events_by_type_and_time", "get_events_by_contract"}

(* C27: while no administrator is stored, authorize_emitter,
   revoke_emitter, is_authorized and record_event_auth fail and change no
   entry, get_event returns none and the four list queries return the empty
   sequence; no event is stored in such a state. *)
C27_nothing_before_initialize ==
    /\ [][~Has("Admin")
          => /\ last'.op \in {"authorize_emitter", "revoke_emitter",
                              "is_authorized", "record_event_auth"}
                => (/\ last'.status # Ok
                    /\ UNCHANGED <<instance, store, liveUntil>>)
             /\ last'.op = "get_event"
                => (last'.status = Ok /\ last'.ret = {})
             /\ last'.op \in ListQueries
                => (last'.status = Ok /\ last'.ret = <<>>)]_vars
    /\ [](~Has("Admin")
          => /\ events = <<>>
             /\ entityIndex = <<>>
             /\ typeTimeIndex = <<>>
             /\ contractIndex = <<>>
             /\ ~Has("AuthorizedEmitters"))

(* a write signed by its emitter has failed for want of an allow-list *)
C27_witness ==
    /\ ~Has("Admin")
    /\ last.op = "record_event_auth"
    /\ last.status = NotInitialized
    /\ last.arg.emitter \in last.auths

(* C28: record_event, the entry point without an emitter argument, fails on
   every call, whoever signed it and whatever is stored, and changes no
   entry; the events change only in a step of record_event_auth. *)
C28_record_event_always_fails ==
    [][/\ last'.op = "record_event"
          => (/\ last'.status # Ok
              /\ UNCHANGED <<instance, store, liveUntil, ledger>>)
       /\ events' # events => last'.op = "record_event_auth"]_vars

(* record_event has failed on a call that an emitter of the allow-list
   signed *)
C28_witness ==
    /\ last.op = "record_event"
    /\ last.status = UseRecordEventAuth
    /\ Has("AuthorizedEmitters")
    /\ \E e \in last.auths : is_authorized_result(e)

(* the sum of the balances of a token over the given addresses *)
RECURSIVE SumBalances(_, _)
SumBalances(token_id, addresses) ==
    IF addresses = {} THEN 0
    ELSE LET a == CHOOSE x \in addresses : TRUE
         IN balance_result(a, token_id) + SumBalances(token_id, addresses \ {a})

Supply(token_id) == SumBalances(token_id, Address)

(* C29: balances are conserved: a successful transfer of amount a from A
   to B lowers the balance of A by a and raises that of B by a, both
   unchanged when A = B, and leaves every other balance; the sum of the
   balances of a token grows by the amount of its mint, which happens on a
   token not minted before, shrinks by the amount of a burn and changes in
   no other step; no balance is negative. *)
C29_balances_conserved ==
    /\ [](\A a \in Address, id \in TokenIds : balance_result(a, id) >= 0)
    /\ [][\A id \in TokenIds :
            LET hit == last'.status = Ok /\ last'.arg.token_id = id
            IN /\ \A from \in Address, to \in Address :
                    (/\ last'.op = "transfer" /\ hit
                     /\ last'.arg.from = from /\ last'.arg.to = to)
                    => /\ Supply(id)' = Supply(id)
                       /\ from # to
                          => /\ balance_result(from, id)'
                                  = balance_result(from, id) - last'.arg.amount
                             /\ balance_result(to, id)'
                                  = balance_result(to, id) + last'.arg.amount
                       /\ \A a \in Address :
                             (a \notin {from, to} \/ from = to)
                             => balance_result(a, id)' = balance_result(a, id)
               /\ (last'.op = "mint" /\ hit)
                  => /\ ~Minted(id)
                     /\ Supply(id)' = Supply(id) + last'.arg.amount
               /\ (last'.op = "burn" /\ hit)
                  => Supply(id)' = Supply(id) - last'.arg.amount
               /\ ~(last'.op \in {"transfer", "mint", "burn"} /\ hit)
                  => \A a \in Address :
                        balance_result(a, id)' = balance_result(a, id)]_vars

(* a sender has transferred a part of its balance to itself *)
C29_witness ==
    /\ last.op = "transfer"
    /\ last.status = Ok
    /\ last.arg.from = last.arg.to
    /\ balance_result(last.arg.from, last.arg.token_id) > last.arg.amount

(* C30: a successful transfer of a token to the retirement tracker sets the
   status of the token to Retired in the same call; while the status is
   Retired every transfer of the token fails, by any holder and of any
   amount, and changes nothing; a successful transfer to any other address
   leaves the status as it was. *)
C30_transfer_to_tracker_retires ==
    [][\A id \in TokenIds :
          (last'.op = "transfer" /\ last'.arg.token_id = id)
          => /\ (last'.status = Ok /\ last'.arg.to = asset["RET_TRACK"])
                => (/\ last'.arg.amount > 0
                    /\ StatusOf(id)' = Retired)
             /\ (last'.status = Ok /\ last'.arg.to # asset["RET_TRACK"])
                => StatusOf(id)' = StatusOf(id)
             /\ (Minted(id) /\ StatusOf(id) = Retired)
                => (/\ last'.status # Ok
                    /\ UNCHANGED carbon)]_vars

(* the sender that retired a part of its balance is refused the transfer of
   the rest *)
C30_witness ==
    /\ last.op = "transfer"
    /\ last.status = TokenFrozen
    /\ last.arg.from \in last.auths
    /\ last.arg.to # asset["RET_TRACK"]
    /\ Minted(last.arg.token_id)
    /\ StatusOf(last.arg.token_id) = Retired
    /\ balance_result(asset["RET_TRACK"], last.arg.token_id) > 0
    /\ balance_result(last.arg.from, last.arg.token_id) >= last.arg.amount
    /\ last.arg.from # asset["RET_TRACK"]

=============================================================================
